---- MODULE Spec2Model ----
(***************************************************************************)
(* Model of the Coinalyze live polling loop (coinalyze_loop.py), its       *)
(* persistence and retention helpers (data_sink.py), the best-effort       *)
(* taker-volume request (coinalyze_api.py) and the webhook notifier        *)
(* (discord_poster.py).                                                    *)
(*                                                                         *)
(* Three specifications share the variables:                               *)
(*   Spec / SpecFair  main_loop, one step per blocking call                *)
(*   SpecRetention    retention_cleanup(max_snapshots, max_streams_bytes)  *)
(*                    applied to bounded directories                       *)
(*   SpecCvd          compute_cvd_from_taker applied to bounded payloads   *)
(***************************************************************************)
EXTENDS Integers, Sequences, FiniteSets, TLC

(***************************************************************************)
(* Bounds of the model (not program constants).                            *)
(***************************************************************************)
\* longest row sequence of a taker payload
MaxRows == 2
\* cycles one run of main_loop may start
MaxCycles == 3
\* upstream requests of one run that take a second
MaxSlow == 1
\* snapshot / stream files of a directory handed to retention_cleanup; their
\* modification times and the snapshot limit are drawn up to the same number
MaxFiles == 2
\* largest byte budget drawn for retention_cleanup
MaxLimit == 3
\* passes of retention_cleanup over one directory pair
MaxPasses == 2

(***************************************************************************)
(* Program constants.                                                      *)
(***************************************************************************)
\* coinalyze_loop.py:156  backoff = min(backoff * 2, 600)
BackoffCap == 600
\* coinalyze_loop.py:149  if cycle % 60 == 0
RetentionEvery == 60
\* data_sink.py:33  max_snapshots: int = 1000
DefaultMaxSnapshots == 1000
\* data_sink.py:33  max_streams_bytes: int = 200 * 1024 * 1024
DefaultMaxStreamsBytes == 200 * 1024 * 1024

Min(a, b) == IF a <= b THEN a ELSE b

RECURSIVE Pow2(_)
Pow2(n) == IF n = 0 THEN 1 ELSE 2 * Pow2(n - 1)

(***************************************************************************)
(* JSON values found in a taker row.  A cell is null, a number, a string   *)
(* that spells a number ("3"), or a string that does not ("x").            *)
(***************************************************************************)
NullCell == [t |-> "null", v |-> 0]
NumCell(n) == [t |-> "num", v |-> n]
StrCell(n) == [t |-> "str", v |-> n]
BadCell == [t |-> "bad", v |-> 0]
\* the mark of a key a row does not hold
AbsentCell == [t |-> "absent", v |-> 0]

\* Python truthiness of a cell: None and 0 are falsy, a non-empty string is truthy
Truthy(c) == \/ c.t = "num" /\ c.v # 0
             \/ c.t = "str"
             \/ c.t = "bad"

\* float(c) succeeds for numbers and numeric strings
CanFloat(c) == c.t \in {"num", "str"}
Float(c) == c.v

BuyAliases == <<"buy_volume", "taker_buy", "buy">>
SellAliases == <<"sell_volume", "taker_sell", "sell">>

\* r.get(k) of a mapping row: the value, or None when the key is absent
RowGet(r, k) == IF r.m[k] # AbsentCell THEN r.m[k] ELSE NullCell

\* mutant: the second alias is not tried
OrChainSkipsAlias(r, aliases) ==
    IF Truthy(RowGet(r, aliases[1])) THEN RowGet(r, aliases[1])
    ELSE IF Truthy(RowGet(r, aliases[3])) THEN RowGet(r, aliases[3])
    ELSE NumCell(0)

\* r.get(a1) or r.get(a2) or r.get(a3) or 0
OrChain(r, aliases) ==
    IF Truthy(RowGet(r, aliases[1])) THEN RowGet(r, aliases[1])
    ELSE IF Truthy(RowGet(r, aliases[2])) THEN RowGet(r, aliases[2])
    ELSE IF Truthy(RowGet(r, aliases[3])) THEN RowGet(r, aliases[3])
    ELSE NumCell(0)

\* results of compute_cvd_from_taker: None, a number, or an exception
CvdNone == [k |-> "none", v |-> 0]
CvdVal(n) == [k |-> "val", v |-> n]
CvdRaise == [k |-> "raise", v |-> 0]

\* the for-loop of compute_cvd_from_taker from row i on, cvd accumulated so far
RECURSIVE CvdLoop(_, _, _)
CvdLoop(rows, i, cvd) ==
    IF i > Len(rows) THEN CvdVal(cvd)
    ELSE IF ~rows[i].isMap THEN CvdRaise   \* r.get on a non-mapping: AttributeError
    ELSE LET buy == OrChain(rows[i], BuyAliases)
             sell == OrChain(rows[i], SellAliases)
         IN IF CanFloat(buy) /\ CanFloat(sell)
            THEN CvdLoop(rows, i + 1, cvd + (Float(buy) - Float(sell)))
            ELSE CvdLoop(rows, i + 1, cvd)   \* except Exception: continue

(***************************************************************************)
(* A payload: shape "none" (None), "scalar" (a number or string, truthy or *)
(* not), "list" (rows), or "dict" whose single key holds a list (isList)   *)
(* or a scalar; key "" is the empty dict.                                  *)
(***************************************************************************)
PayloadFalsy(p) == \/ p.shape = "none"
                   \/ p.shape = "scalar" /\ ~p.truthy
                   \/ p.shape = "list" /\ p.rows = <<>>
                   \/ p.shape = "dict" /\ p.key = ""

compute_cvd_from_taker(p) ==
    IF PayloadFalsy(p) THEN CvdNone
    ELSE LET hasData == p.shape = "dict" /\ p.key = "data"
             rowsIsList == IF hasData THEN p.isList ELSE p.shape = "list"
         IN IF ~rowsIsList THEN CvdNone
            ELSE CvdLoop(p.rows, 1, 0)

(***************************************************************************)
(* Directories.  A directory is a function from file names to file         *)
(* records; snapshot names are the fetched_at they are derived from, and   *)
(* stream files are numbered.                                              *)
(***************************************************************************)
EmptyDir == <<>>
Files(dir) == DOMAIN dir
Restrict(dir, S) == [f \in S |-> dir[f]]
Range(seq) == {seq[i] : i \in DOMAIN seq}

\* the (symbol, interval) log that append_jsonl writes
LogFile == 1

\* the first k files of sorted(glob(...), key=os.path.getmtime): every listing
\* of the k oldest files in ascending modification time; files of equal time
\* come in glob's order, which the file system decides
RECURSIVE OldestFirst(_, _, _)
OldestFirst(dir, S, k) ==
    IF k = 0 \/ S = {} THEN {<<>>}
    ELSE LET oldest == {f \in S : \A g \in S : dir[f].mtime <= dir[g].mtime}
         IN UNION {{<<f>> \o rest : rest \in OldestFirst(dir, S \ {f}, k - 1)} : f \in oldest}

\* mutant: one file too few is deleted
ToDeleteCountShort(n, max_snapshots) ==
    IF n > max_snapshots THEN n - max_snapshots - 1 ELSE 0

\* if len(snaps) > max_snapshots: to_delete = snaps[:len(snaps)-max_snapshots]
\* -- the length of to_delete for a listing of n files
ToDeleteCount(n, max_snapshots) ==
    IF n > max_snapshots THEN n - max_snapshots ELSE 0

\* the listings to_delete can be
ToDelete(dir, max_snapshots) ==
    OldestFirst(dir, Files(dir), ToDeleteCount(Cardinality(Files(dir)), max_snapshots))

\* mutant: streams.pop() in place of streams.pop(0): the newest file goes first
RECURSIVE StreamLoopPopsNewest(_, _, _, _)
StreamLoopPopsNewest(dir, S, total, max_streams_bytes) ==
    IF total > max_streams_bytes /\ S # {}
    THEN LET newest == {f \in S : \A g \in S : dir[g].mtime <= dir[f].mtime}
         IN UNION {{{p} \cup popped :
                      popped \in StreamLoopPopsNewest(dir, S \ {p}, total - dir[p].size,
                                                      max_streams_bytes)} : p \in newest}
    ELSE {{}}

\* while total > max_streams_bytes and streams: p = streams.pop(0);
\* total -= getsize(p); os.remove(p)  -- the sets of files the loop can pop
\* from the files S still listed; total is reduced whether or not os.remove
\* succeeds
RECURSIVE StreamLoop(_, _, _, _)
StreamLoop(dir, S, total, max_streams_bytes) ==
    IF total > max_streams_bytes /\ S # {}
    THEN LET oldest == {f \in S : \A g \in S : dir[f].mtime <= dir[g].mtime}
         IN UNION {{{p} \cup popped :
                      popped \in StreamLoop(dir, S \ {p}, total - dir[p].size,
                                            max_streams_bytes)} : p \in oldest}
    ELSE {{}}

RECURSIVE TotalSize(_, _)
TotalSize(dir, S) ==
    IF S = {} THEN 0
    ELSE LET f == CHOOSE x \in S : TRUE
         IN dir[f].size + TotalSize(dir, S \ {f})

\* the sets of files the stream loop can pop from a directory
Popped(dir, max_streams_bytes) ==
    StreamLoop(dir, Files(dir), TotalSize(dir, Files(dir)), max_streams_bytes)

\* the directory after os.remove of the files tried, those failing left in place
Removed(dir, tried, failing) == Restrict(dir, Files(dir) \ (tried \ failing))

\* the files whose os.remove may fail in one pass: none, or one of the files
\* the pass tries to remove, in one of the two directories
MayFail(to_delete, popped) ==
    {<<{}, {}>>} \cup {<<{f}, {}>> : f \in Range(to_delete)}
                \cup {<<{}, {f}>> : f \in popped}

(***************************************************************************)
(* State.                                                                  *)
(***************************************************************************)
VARIABLES
    \* main_loop and its module
    sleep_sec,      \* the sleep_sec argument (base_sleep_seconds)
    shutdown,       \* the global flag _sigterm sets
    pc,             \* where main_loop stands
    req,            \* number of the upstream request fetch_block is at
    backoff,        \* main_loop's backoff
    cycle,          \* main_loop's cycle counter
    clock,          \* time.time(), whole seconds
    t1,             \* fetch_block's t1 = now_ts()
    pack,           \* the block fetch_block returned
    snapDir,        \* SNAPSHOT_DIR: name -> [mtime, fetched_at, complete]
    streamDir,      \* STREAM_DIR: name -> [mtime, size, lines]
    \* what a run has done so far (history, not program state)
    started,        \* cycles started
    fails,          \* failed cycles since the last successful one
    lastSleep,      \* the last sleep taken: its kind, its seconds, the failed cycles
                    \* before it and the error that led to it
    takerResp,      \* upstream's answer to this cycle's taker request
    discordErr,     \* this cycle's webhook post raised
    lastErr,        \* the call that raised the last error of this cycle
    written,        \* snapshot names written so far
    fresh,          \* this cycle's snapshot name had not been written before
    fetchStart,     \* the clock when this cycle's fetch started
    snapStart,      \* the directories when this cycle started
    streamStart,
    retentionRuns,  \* calls of retention_cleanup
    sigMid,         \* the first signal arrived while a cycle was in flight
    slow,           \* slow upstream requests so far
    \* retention_cleanup applied on its own
    max_snapshots, max_streams_bytes,
    passes,         \* passes made
    failedDelete,   \* some os.remove failed in a pass
    snap0, stream0, \* the directories before the first pass
    snap1, stream1, \* the directories after the first pass
    \* compute_cvd_from_taker applied on its own
    payload, result

loopVars == <<sleep_sec, shutdown, pc, req, backoff, cycle, clock, t1, pack,
              started, fails, lastSleep, takerResp, discordErr, lastErr,
              written, fresh, fetchStart, snapStart, streamStart,
              retentionRuns, sigMid, slow>>
dirVars == <<snapDir, streamDir>>
retVars == <<max_snapshots, max_streams_bytes, passes, failedDelete,
             snap0, stream0, snap1, stream1>>
cvdVars == <<payload, result>>
vars == <<loopVars, dirVars, retVars, cvdVars>>

NoPack == [fetched_at |-> 0, cvd |-> CvdNone, taker |-> "none"]
NoSleep == [kind |-> "none", dur |-> 0, f |-> 0, err |-> "none"]
NoPayload == [shape |-> "none", truthy |-> FALSE, key |-> "", isList |-> FALSE, rows |-> <<>>]
NoResult == [k |-> "pending", v |-> 0]

\* the variables a specification does not use
LoopIdle ==
    /\ sleep_sec = 1 /\ shutdown = FALSE /\ pc = "idle" /\ req = 0
    /\ backoff = 1 /\ cycle = 0 /\ clock = 0 /\ t1 = 0 /\ pack = NoPack
    /\ started = 0 /\ fails = 0 /\ lastSleep = NoSleep /\ takerResp = "none"
    /\ discordErr = FALSE /\ lastErr = "none" /\ written = {} /\ fresh = FALSE
    /\ fetchStart = 0 /\ snapStart = EmptyDir /\ streamStart = EmptyDir
    /\ retentionRuns = 0 /\ sigMid = FALSE /\ slow = 0
RetIdle ==
    /\ max_snapshots = DefaultMaxSnapshots
    /\ max_streams_bytes = DefaultMaxStreamsBytes
    /\ passes = 0 /\ failedDelete = FALSE
    /\ snap0 = EmptyDir /\ stream0 = EmptyDir
    /\ snap1 = EmptyDir /\ stream1 = EmptyDir
CvdIdle == payload = NoPayload /\ result = NoResult

(***************************************************************************)
(* SpecCvd: compute_cvd_from_taker on every payload of the bounded set.    *)
(***************************************************************************)
\* values drawn for the buy keys and for the sell keys
BuyCells == {NumCell(2), BadCell}
SellCells == {NullCell, StrCell(3)}

AllAliases == Range(BuyAliases) \cup Range(SellAliases)
NoKeys == [k \in AllAliases |-> AbsentCell]

\* what a row holds for one side: nothing, or one alias with a value
SideParts(aliases, cells) ==
    {NoKeys} \cup {[k \in AllAliases |-> IF k = a THEN c ELSE AbsentCell] :
                      a \in Range(aliases), c \in cells}

NonMapRow == [isMap |-> FALSE, m |-> NoKeys]
MapRows == {[isMap |-> TRUE, m |-> [k \in AllAliases |-> IF b[k] # AbsentCell THEN b[k] ELSE s[k]]] :
               b \in SideParts(BuyAliases, BuyCells),
               s \in SideParts(SellAliases, SellCells)}
Rows == MapRows \cup {NonMapRow}

DictKeys == {"data", "result"}

\* the payloads of the bounded set: None, a scalar, a list of rows, the empty
\* dict, a dict whose key holds a scalar, a dict whose key holds a list of rows
IsPayload(p) ==
    \/ p = NoPayload
    \/ \E b \in BOOLEAN :
         p = [shape |-> "scalar", truthy |-> b, key |-> "", isList |-> FALSE, rows |-> <<>>]
    \/ \E n \in 0..MaxRows : \E rs \in [1..n -> Rows] :
         p = [shape |-> "list", truthy |-> FALSE, key |-> "", isList |-> FALSE, rows |-> rs]
    \/ p = [shape |-> "dict", truthy |-> FALSE, key |-> "", isList |-> FALSE, rows |-> <<>>]
    \/ \E k \in DictKeys :
         p = [shape |-> "dict", truthy |-> FALSE, key |-> k, isList |-> FALSE, rows |-> <<>>]
    \/ \E k \in DictKeys, n \in 0..MaxRows : \E rs \in [1..n -> Rows] :
         p = [shape |-> "dict", truthy |-> FALSE, key |-> k, isList |-> TRUE, rows |-> rs]

InitCvd ==
    /\ LoopIdle /\ RetIdle
    /\ snapDir = EmptyDir /\ streamDir = EmptyDir
    /\ IsPayload(payload)
    /\ result = NoResult

ComputeCvd ==
    /\ result = NoResult
    /\ result' = compute_cvd_from_taker(payload)
    /\ UNCHANGED <<payload, loopVars, dirVars, retVars>>

NextCvd == ComputeCvd

SpecCvd == InitCvd /\ [][NextCvd]_vars

(***************************************************************************)
(* SpecRetention: retention_cleanup(max_snapshots, max_streams_bytes) on   *)
(* every directory pair of the bounded set.  Files are numbered in         *)
(* ascending modification time (retention_cleanup never reads a name);     *)
(* files of equal time are listed in either order.                         *)
(***************************************************************************)
FileSizes == {1, 2}

SnapFile(mt) == [mtime |-> mt, fetched_at |-> mt, complete |-> TRUE]
StreamFile(mt, sz) == [mtime |-> mt, size |-> sz, lines |-> <<>>]

Ascending(dir) ==
    \A f, g \in Files(dir) : f <= g => dir[f].mtime <= dir[g].mtime

InitRetention ==
    /\ LoopIdle /\ CvdIdle
    /\ \E n \in 0..MaxFiles : \E mt \in [1..n -> 1..MaxFiles] :
         snapDir = [f \in 1..n |-> SnapFile(mt[f])]
    /\ Ascending(snapDir)
    /\ \E n \in 0..MaxFiles : \E mt \in [1..n -> 1..MaxFiles], sz \in [1..n -> FileSizes] :
         streamDir = [f \in 1..n |-> StreamFile(mt[f], sz[f])]
    /\ Ascending(streamDir)
    /\ max_snapshots \in 0..MaxFiles
    /\ max_streams_bytes \in 0..MaxLimit
    /\ passes = 0 /\ failedDelete = FALSE
    /\ snap0 = snapDir /\ stream0 = streamDir
    /\ snap1 = EmptyDir /\ stream1 = EmptyDir

\* one call retention_cleanup(max_snapshots, max_streams_bytes)
RetentionPass ==
    /\ passes < MaxPasses
    /\ \E to_delete \in ToDelete(snapDir, max_snapshots),
          popped \in Popped(streamDir, max_streams_bytes) :
       \E failing \in MayFail(to_delete, popped) :
         /\ snapDir' = Removed(snapDir, Range(to_delete), failing[1])
         /\ streamDir' = Removed(streamDir, popped, failing[2])
         /\ failedDelete' = (failedDelete \/ failing # <<{}, {}>>)
    /\ passes' = passes + 1
    /\ snap1' = IF passes = 0 THEN snapDir' ELSE snap1
    /\ stream1' = IF passes = 0 THEN streamDir' ELSE stream1
    /\ UNCHANGED <<max_snapshots, max_streams_bytes, snap0, stream0, loopVars, cvdVars>>

NextRetention == RetentionPass

SpecRetention == InitRetention /\ [][NextRetention]_vars

(***************************************************************************)
(* Spec: main_loop(symbol, interval, window_hr, sleep_sec, print_json).    *)
(* One step per blocking call; _sigterm may run between any two.           *)
(***************************************************************************)
\* the sleep_sec arguments drawn: small, below the cap, above the cap
Bases == {1, 200, 700}

\* the directories after c cycles that all succeeded at once, sleep_sec apart
SnapsAfter(c, base) ==
    [n \in {i * base : i \in 0..(c - 1)} |->
        [mtime |-> n, fetched_at |-> n, complete |-> TRUE]]
StreamsAfter(c, base) ==
    IF c = 0 THEN EmptyDir
    ELSE [f \in {LogFile} |->
            [mtime |-> (c - 1) * base, size |-> c,
             lines |-> [i \in 1..c |-> (i - 1) * base]]]

\* a run is followed from its start, or from two cycles before the first
\* retention pass of a run whose cycles so far all succeeded
StartCycles == {0, RetentionEvery - 2}

Init ==
    /\ RetIdle /\ CvdIdle
    /\ sleep_sec \in Bases
    /\ cycle \in StartCycles
    /\ cycle # 0 => sleep_sec = 1
    /\ clock = cycle * sleep_sec
    /\ snapDir = SnapsAfter(cycle, sleep_sec)
    /\ streamDir = StreamsAfter(cycle, sleep_sec)
    /\ written = Files(snapDir)
    /\ shutdown = FALSE
    /\ backoff = sleep_sec
    /\ pc = "top" /\ req = 0 /\ t1 = 0 /\ pack = NoPack
    /\ started = 0 /\ fails = 0 /\ lastSleep = NoSleep /\ takerResp = "none"
    /\ discordErr = FALSE /\ lastErr = "none" /\ fresh = FALSE
    /\ fetchStart = 0 /\ snapStart = EmptyDir /\ streamStart = EmptyDir
    /\ retentionRuns = 0 /\ sigMid = FALSE /\ slow = 0

\* mutant: the handler raises into main_loop, as the default SIGINT handler does
sigtermRaises ==
    /\ pc # "exited"
    /\ shutdown' = TRUE
    /\ pc' = "exited"
    /\ sigMid' = IF shutdown THEN sigMid ELSE pc # "top"
    /\ UNCHANGED <<sleep_sec, req, backoff, cycle, clock, t1, pack,
                   started, fails, lastSleep, takerResp, discordErr, lastErr,
                   written, fresh, fetchStart, snapStart, streamStart,
                   retentionRuns, slow, dirVars, retVars, cvdVars>>

\* _sigterm: sets the flag
sigterm ==
    /\ pc # "exited"
    /\ shutdown' = TRUE
    /\ sigMid' = IF shutdown THEN sigMid ELSE pc # "top"
    /\ UNCHANGED <<sleep_sec, pc, req, backoff, cycle, clock, t1, pack,
                   started, fails, lastSleep, takerResp, discordErr, lastErr,
                   written, fresh, fetchStart, snapStart, streamStart,
                   retentionRuns, slow, dirVars, retVars, cvdVars>>

\* what a cycle leaves behind when it ends: its locals and the record of
\* what happened in it
CycleEnds ==
    /\ t1' = 0 /\ pack' = NoPack
    /\ takerResp' = "none" /\ discordErr' = FALSE /\ lastErr' = "none"
    /\ fresh' = FALSE /\ fetchStart' = 0
    /\ snapStart' = EmptyDir /\ streamStart' = EmptyDir

\* while not shutdown: ... t0 = time.time(); fetch_block: t1 = now_ts()
LoopTop ==
    /\ pc = "top"
    /\ \/ /\ shutdown
          /\ pc' = "exited"
          /\ UNCHANGED <<req, t1, pack, started, takerResp, discordErr, lastErr,
                         fresh, fetchStart, snapStart, streamStart>>
       \/ /\ ~shutdown
          /\ started < MaxCycles
          /\ pc' = "fetch"
          /\ req' = 1
          /\ t1' = clock
          /\ started' = started + 1
          /\ UNCHANGED <<pack, takerResp, discordErr, lastErr, fresh>>
          /\ fetchStart' = clock
          /\ snapStart' = snapDir /\ streamStart' = streamDir
    /\ UNCHANGED <<sleep_sec, shutdown, backoff, cycle, clock, fails, lastSleep,
                   written, retentionRuns, sigMid, slow,
                   dirVars, retVars, cvdVars>>

\* mutant: the persistence calls stand outside the try block
RaisedOutsideTry(call) ==
    IF call \in {"write_snapshot", "append_jsonl"} THEN "exited" ELSE "except"

\* lines 118, 153: an exception raised by a call inside the try block lands
\* in `except Exception`
Raised(call) == "except"

\* what upstream answers a request with
Responses == {"ok", "not_found", "http_error", "network", "bad_json"}

\* _get: parsed JSON, or the exception it leaves with.  resp.json() on a
\* malformed body raises a RequestException (turned into RuntimeError) or a
\* plain ValueError, depending on the requests release installed
GetOutcomes(resp) ==
    CASE resp = "ok" -> {"json"}
      [] resp = "bad_json" -> {"RuntimeError", "ValueError"}
      [] OTHER -> {"RuntimeError"}

\* the seconds a request may take, given the slow requests so far
Delays == IF slow < MaxSlow THEN {0, 1} ELSE {0}

\* fetch_block's seven requests outside any try: get_open_interest ...
\* get_ohlcv_history
Request ==
    /\ pc = "fetch" /\ req \in 1..7
    /\ \E resp \in Responses, d \in Delays : \E out \in GetOutcomes(resp) :
         /\ clock' = clock + d
         /\ slow' = slow + d
         /\ IF out = "json"
            THEN /\ req' = req + 1
                 /\ UNCHANGED <<pc, lastErr>>
            ELSE /\ pc' = Raised("upstream")
                 /\ lastErr' = "upstream"
                 /\ UNCHANGED req
    /\ UNCHANGED <<sleep_sec, shutdown, backoff, cycle, t1, pack, started, fails,
                   lastSleep, takerResp, discordErr, written, fresh, fetchStart,
                   snapStart, streamStart, retentionRuns, sigMid,
                   dirVars, retVars, cvdVars>>

\* get_buy_sell_history: every RuntimeError of _get becomes NotImplementedError
BuySellOutcome(getOut) ==
    IF getOut = "RuntimeError" THEN "NotImplementedError" ELSE getOut

\* the taker payloads upstream answers with in a run: [{"buy": 2, "sell": "3"}],
\* a list holding a non-mapping, and an empty list
TakerSamples ==
    {[shape |-> "list", truthy |-> FALSE, key |-> "", isList |-> FALSE, rows |-> rs] :
        rs \in {<<[isMap |-> TRUE,
                   m |-> [k \in AllAliases |->
                            IF k = "buy" THEN NumCell(2)
                            ELSE IF k = "sell" THEN StrCell(3) ELSE AbsentCell]]>>,
                <<NonMapRow>>,
                <<>>}}

\* fetch_block lines 81-107: the block built from the taker outcome
TakerBlock(out, p, fetched_at) ==
    IF out = "json"
    THEN [fetched_at |-> fetched_at,
          cvd |-> IF compute_cvd_from_taker(p) = CvdRaise
                  THEN CvdNone                      \* except Exception: cvd = None
                  ELSE compute_cvd_from_taker(p),
          taker |-> "raw"]
    ELSE [fetched_at |-> fetched_at, cvd |-> CvdNone, taker |-> "none"]

\* where fetch_block goes after the taker request: both except branches
\* swallow the error and the block is returned
AfterTaker(out) == "write_snapshot"

\* the best-effort request get_buy_sell_history inside try/except
TakerRequest ==
    /\ pc = "fetch" /\ req = 8
    /\ \E resp \in Responses, d \in Delays, p \in TakerSamples :
       \E getOut \in GetOutcomes(resp) :
         /\ clock' = clock + d
         /\ slow' = slow + d
         /\ takerResp' = resp
         /\ pack' = TakerBlock(BuySellOutcome(getOut), p, t1)
         /\ pc' = AfterTaker(BuySellOutcome(getOut))
    /\ req' = 0
    /\ UNCHANGED <<sleep_sec, shutdown, backoff, cycle, t1, started, fails,
                   lastSleep, discordErr, lastErr, written, fresh, fetchStart,
                   snapStart, streamStart, retentionRuns, sigMid,
                   dirVars, retVars, cvdVars>>

\* write_snapshot: the file named after pack["fetched_at"] is (re)written;
\* a failing write leaves no file or a partial one
WriteSnapshot ==
    /\ pc = "write_snapshot"
    /\ \E out \in {"ok", "fail", "partial"} :
         /\ snapDir' =
               IF out = "fail" THEN snapDir
               ELSE [f \in Files(snapDir) \cup {pack.fetched_at} |->
                       IF f = pack.fetched_at
                       THEN [mtime |-> clock, fetched_at |-> pack.fetched_at,
                             complete |-> (out = "ok")]
                       ELSE snapDir[f]]
         /\ written' = IF out = "fail" THEN written ELSE written \cup {pack.fetched_at}
         /\ fresh' = (out # "fail" /\ pack.fetched_at \notin written)
         /\ pc' = IF out = "ok" THEN "append_jsonl" ELSE Raised("write_snapshot")
         /\ lastErr' = IF out = "ok" THEN lastErr ELSE "write_snapshot"
    /\ UNCHANGED <<sleep_sec, shutdown, req, backoff, cycle, clock, t1, pack,
                   started, fails, lastSleep, takerResp, discordErr, fetchStart,
                   snapStart, streamStart, retentionRuns, sigMid, slow,
                   streamDir, retVars, cvdVars>>

\* append_jsonl: one line is appended to the (symbol, interval) log
AppendJsonl ==
    /\ pc = "append_jsonl"
    /\ \E ok \in BOOLEAN :
         /\ streamDir' =
               IF ~ok THEN streamDir
               ELSE [f \in Files(streamDir) \cup {LogFile} |->
                       IF f = LogFile
                       THEN [mtime |-> clock,
                             size |-> IF LogFile \in Files(streamDir)
                                      THEN streamDir[LogFile].size + 1 ELSE 1,
                             lines |-> IF LogFile \in Files(streamDir)
                                       THEN Append(streamDir[LogFile].lines, pack.fetched_at)
                                       ELSE <<pack.fetched_at>>]
                       ELSE streamDir[f]]
         /\ pc' = IF ok THEN "summary" ELSE Raised("append_jsonl")
         /\ lastErr' = IF ok THEN lastErr ELSE "append_jsonl"
    /\ UNCHANGED <<sleep_sec, shutdown, req, backoff, cycle, clock, t1, pack,
                   started, fails, lastSleep, takerResp, discordErr, written,
                   fresh, fetchStart, snapStart, streamStart, retentionRuns,
                   sigMid, slow, snapDir, retVars, cvdVars>>

\* lines 125-139: the summary line (and the JSON excerpt); indexing a payload
\* of another shape raises
Summary ==
    /\ pc = "summary"
    /\ \E ok \in BOOLEAN :
         /\ pc' = IF ok THEN "discord" ELSE Raised("summary")
         /\ lastErr' = IF ok THEN lastErr ELSE "summary"
    /\ UNCHANGED <<sleep_sec, shutdown, req, backoff, cycle, clock, t1, pack,
                   started, fails, lastSleep, takerResp, discordErr, written,
                   fresh, fetchStart, snapStart, streamStart, retentionRuns,
                   sigMid, slow, dirVars, retVars, cvdVars>>

\* mutant: an error of the webhook post is not caught apart and reaches the
\* handler of the cycle
AfterDiscordUncaught(raised) == IF raised THEN Raised("discord") ELSE "bookkeeping"

\* lines 142-145: try: post_summary(..., build_embed(...)) except Exception: print
AfterDiscord(raised) == "bookkeeping"

Discord ==
    /\ pc = "discord"
    /\ \E raised \in BOOLEAN :
         /\ discordErr' = raised
         /\ pc' = AfterDiscord(raised)
         /\ lastErr' = IF raised THEN "discord" ELSE lastErr
    /\ UNCHANGED <<sleep_sec, shutdown, req, backoff, cycle, clock, t1, pack,
                   started, fails, lastSleep, takerResp, written, fresh,
                   fetchStart, snapStart, streamStart, retentionRuns, sigMid,
                   slow, dirVars, retVars, cvdVars>>

\* mutant: the counter is tested before it is incremented
RetentionDueBefore(c) == (c - 1) % RetentionEvery = 0

\* if cycle % 60 == 0, for the counter c just incremented
RetentionDue(c) == c % RetentionEvery = 0

\* lines 148-152: cycle += 1; retention_cleanup() every 60th; backoff = sleep_sec
Bookkeeping ==
    /\ pc = "bookkeeping"
    /\ cycle' = cycle + 1
    /\ IF RetentionDue(cycle')
       THEN /\ \E to_delete \in ToDelete(snapDir, DefaultMaxSnapshots),
                  popped \in Popped(streamDir, DefaultMaxStreamsBytes) :
               \E failing \in MayFail(to_delete, popped) :
                 /\ snapDir' = Removed(snapDir, Range(to_delete), failing[1])
                 /\ streamDir' = Removed(streamDir, popped, failing[2])
                 /\ failedDelete' = (failedDelete \/ failing # <<{}, {}>>)
            /\ retentionRuns' = retentionRuns + 1
       ELSE UNCHANGED <<snapDir, streamDir, retentionRuns, failedDelete>>
    /\ backoff' = sleep_sec
    /\ fails' = 0
    /\ pc' = "sleep"
    /\ UNCHANGED <<sleep_sec, shutdown, req, clock, t1, pack, started, lastSleep,
                   takerResp, discordErr, lastErr, written, fresh, fetchStart,
                   snapStart, streamStart, sigMid, slow, cvdVars,
                   max_snapshots, max_streams_bytes, passes,
                   snap0, stream0, snap1, stream1>>

\* random.uniform(0, 0.25*sec) in whole seconds: the two ends of the range
Jitters(sec) == {0, sec \div 4}

\* mutant: the jitter is subtracted
SleepSecondsShort(sec, j) == sec - (j + 1)

\* sleep_with_jitter: time.sleep(max(0, sec + jitter))
SleepSeconds(sec, j) == IF sec + j > 0 THEN sec + j ELSE 0

Sleep ==
    /\ pc = "sleep"
    /\ \E j \in Jitters(sleep_sec) :
         /\ clock' = clock + SleepSeconds(sleep_sec, j)
         /\ lastSleep' = [kind |-> "normal", dur |-> SleepSeconds(sleep_sec, j),
                          f |-> 0, err |-> "none"]
    /\ pc' = "top"
    /\ CycleEnds
    /\ UNCHANGED <<sleep_sec, shutdown, req, backoff, cycle, started, fails,
                   written, retentionRuns, sigMid, slow,
                   dirVars, retVars, cvdVars>>

\* mutant: the ceiling is left out
NextBackoffNoCap(b) == b * 2

\* backoff = min(backoff * 2, 600)
NextBackoff(b) == Min(b * 2, BackoffCap)

\* lines 153-157: print the error, time.sleep(backoff), double, continue
Except ==
    /\ pc = "except"
    /\ clock' = clock + backoff
    /\ lastSleep' = [kind |-> "backoff", dur |-> backoff, f |-> fails, err |-> lastErr]
    /\ backoff' = NextBackoff(backoff)
    /\ fails' = fails + 1
    /\ pc' = "top"
    /\ CycleEnds
    /\ UNCHANGED <<sleep_sec, shutdown, req, cycle, started, written,
                   retentionRuns, sigMid, slow, dirVars, retVars, cvdVars>>

\* the steps of main_loop
LoopStep ==
    \/ LoopTop \/ Request \/ TakerRequest \/ WriteSnapshot \/ AppendJsonl
    \/ Summary \/ Discord \/ Bookkeeping \/ Sleep \/ Except

Next == sigterm \/ LoopStep

Spec == Init /\ [][Next]_vars

\* every request and every sleep returns: main_loop keeps taking steps
\* (runs followed from their start, with sleep_sec = 1)
InitFresh == Init /\ cycle = 0 /\ sleep_sec = 1
SpecFair == InitFresh /\ [][Next]_vars /\ WF_vars(LoopStep)

\* the snapshot directory a loop instance finds when it starts: as many
\* snapshots of earlier runs as retention_cleanup keeps by default
EarlierSnaps ==
    [n \in (0 - DefaultMaxSnapshots)..(0 - 1) |->
        [mtime |-> n, fetched_at |-> n, complete |-> TRUE]]

\* the files of two directories with no name in common
Both(d1, d2) ==
    [f \in Files(d1) \cup Files(d2) |-> IF f \in Files(d1) THEN d1[f] ELSE d2[f]]

\* a run that started on a full snapshot directory, followed from two cycles
\* before its first retention pass, its cycles so far all succeeded and its
\* slow requests behind it
InitStorage ==
    /\ RetIdle /\ CvdIdle
    /\ sleep_sec = 1
    /\ cycle = RetentionEvery - 2
    /\ clock = cycle * sleep_sec
    /\ snapDir = Both(EarlierSnaps, SnapsAfter(cycle, sleep_sec))
    /\ streamDir = StreamsAfter(cycle, sleep_sec)
    /\ written = Files(SnapsAfter(cycle, sleep_sec))
    /\ shutdown = FALSE
    /\ backoff = sleep_sec
    /\ pc = "top" /\ req = 0 /\ t1 = 0 /\ pack = NoPack
    /\ started = 0 /\ fails = 0 /\ lastSleep = NoSleep /\ takerResp = "none"
    /\ discordErr = FALSE /\ lastErr = "none" /\ fresh = FALSE
    /\ fetchStart = 0 /\ snapStart = EmptyDir /\ streamStart = EmptyDir
    /\ retentionRuns = 0 /\ sigMid = FALSE /\ slow = MaxSlow

\* the run is left to itself: no signal arrives
NextStorage == LoopStep

SpecStorage == InitStorage /\ [][NextStorage]_vars

(***************************************************************************)
(* Claims about main_loop (Spec, SpecFair, SpecStorage).                   *)
(***************************************************************************)
\* C1: for every positive sleep_sec the backoff sleep of a failed cycle is
\* min(sleep_sec * 2^f, 600), f the consecutive failed cycles before it since
\* the last success (or the start).
C1_AsStated ==
    lastSleep.kind = "backoff" =>
        lastSleep.dur = Min(sleep_sec * Pow2(lastSleep.f), BackoffCap)

\* what main_loop does: backoff starts from sleep_sec uncapped (lines 114,
\* 152) and the cap is applied only when it is doubled (line 156), so the
\* first backoff sleep is sleep_sec even above 600
C1_Backoff ==
    lastSleep.kind = "backoff" =>
        lastSleep.dur = IF lastSleep.f = 0 THEN sleep_sec
                        ELSE Min(sleep_sec * Pow2(lastSleep.f), BackoffCap)

\* with base 200 the third consecutive failure has slept the cap
C1_Witness ==
    /\ sleep_sec = 200
    /\ lastSleep.kind = "backoff" /\ lastSleep.f = 2 /\ lastSleep.dur = BackoffCap
    /\ backoff = BackoffCap

\* C2: no steady-state failure ends the loop: it exits only from the top of
\* a cycle with the flag set, every failed cycle goes through the backoff
\* handler back to the top, and from the top a new cycle begins unless the
\* flag is set.
C2_NeverFatal ==
    [][ /\ (pc' = "exited" /\ pc # "exited") => (pc = "top" /\ shutdown)
        /\ (pc = "except" /\ pc' # pc) => pc' = "top"
        /\ (pc \in {"fetch", "write_snapshot", "append_jsonl", "summary"} /\ pc' # pc)
              => pc' \in {"fetch", "write_snapshot", "append_jsonl", "summary",
                          "discord", "except"}
        /\ (pc \in {"discord", "bookkeeping"} /\ pc' # pc) => pc' \in {"bookkeeping", "sleep"}
        /\ (pc = "top" /\ ~shutdown /\ pc' # pc) => pc' = "fetch" ]_vars

\* C2 witness: a cycle failed in append_jsonl, slept its backoff, and the
\* loop is in the next cycle
C2_Witness ==
    /\ pc = "fetch" /\ ~shutdown
    /\ lastSleep.kind = "backoff" /\ lastSleep.err = "append_jsonl"

\* C3: the handler only sets the flag; the loop leaves only from the top of a
\* cycle with the flag set, so a cycle in flight runs to its sleep or its
\* backoff sleep; no fetch starts once the flag is set and seen; and the
\* loop, whose calls all return, exits once the flag is set.
C3_Cooperative ==
    /\ [][ shutdown' # shutdown =>
             /\ shutdown' = TRUE
             /\ UNCHANGED <<pc, req, backoff, cycle, clock, t1, pack, dirVars>> ]_vars
    /\ [][ (pc' = "exited" /\ pc # "exited") => (pc = "top" /\ shutdown) ]_vars
    /\ [][ (pc = "sleep" /\ pc' # pc) => (pc' = "top" /\ lastSleep'.kind = "normal") ]_vars
    /\ [][ (pc = "except" /\ pc' # pc) => (pc' = "top" /\ lastSleep'.kind = "backoff") ]_vars
    /\ [][ (pc' = "fetch" /\ pc # "fetch") => (pc = "top" /\ ~shutdown) ]_vars
    /\ [][ pc = "exited" => pc' = "exited" ]_vars
    /\ (shutdown ~> pc = "exited")

\* C3 witness: the signal came while a cycle was in flight, the cycle went
\* on to its sleep, and the loop has exited
C3_Witness ==
    /\ pc = "exited" /\ sigMid
    /\ lastSleep.kind = "normal"

\* C4: a network/HTTP/parse failure of the taker request is an upstream
\* failure: the cycle fails like for any other request; only an endpoint that
\* does not exist gives a block without cvd.
C4_TakerFailureFailsCycle ==
    /\ (takerResp = "not_found" /\ pc = "write_snapshot") => pack.cvd = CvdNone
    /\ takerResp \in {"http_error", "network", "bad_json"} =>
          (pc = "except" /\ lastErr = "upstream")

\* C5: a cycle whose persistence, summary and notification are done has
\* created exactly one snapshot, under a name never written before, and
\* appended exactly one line, both holding the time read when its fetch
\* started; nothing else in the two directories changed.
C5_OneSnapshotOneLine ==
    pc = "bookkeeping" =>
        /\ fresh
        /\ pack.fetched_at = fetchStart
        /\ pack.fetched_at \notin Files(snapStart)
        /\ Files(snapDir) = Files(snapStart) \cup {pack.fetched_at}
        /\ snapDir[pack.fetched_at].fetched_at = fetchStart
        /\ snapDir[pack.fetched_at].complete
        /\ \A f \in Files(snapStart) : snapDir[f] = snapStart[f]
        /\ Files(streamDir) = Files(streamStart) \cup {LogFile}
        /\ streamDir[LogFile].lines =
              (IF LogFile \in Files(streamStart) THEN streamStart[LogFile].lines ELSE <<>>)
              \o <<fetchStart>>
        /\ \A f \in Files(streamStart) \ {LogFile} : streamDir[f] = streamStart[f]

\* C5 witness: the third cycle of a run succeeds after a slow fetch, while the
\* directory holds a partial snapshot left by a failed cycle
C5_Witness ==
    /\ pc = "bookkeeping" /\ started = 3
    /\ clock # fetchStart
    /\ \E f \in Files(snapDir) : ~snapDir[f].complete

\* C6: a webhook failure changes nothing in how the cycle ends: the counter
\* is incremented, retention runs exactly when due, backoff is reset to
\* sleep_sec, the jittered sleep is taken, and there is no backoff sleep.
C6_WebhookFailure ==
    /\ [][ (pc = "discord" /\ pc' # pc) => pc' = "bookkeeping" ]_vars
    /\ [][ (discordErr /\ pc = "bookkeeping" /\ pc' # pc) =>
             /\ pc' = "sleep"
             /\ cycle' = cycle + 1
             /\ retentionRuns' = IF cycle' % RetentionEvery = 0
                                 THEN retentionRuns + 1 ELSE retentionRuns
             /\ backoff' = sleep_sec /\ fails' = 0
             /\ lastSleep' = lastSleep /\ clock' = clock ]_vars
    /\ [][ (discordErr /\ pc = "sleep" /\ pc' # pc) =>
             /\ pc' = "top"
             /\ lastSleep'.kind = "normal"
             /\ lastSleep'.dur >= sleep_sec
             /\ lastSleep'.dur <= sleep_sec + sleep_sec \div 4
             /\ clock' = clock + lastSleep'.dur
             /\ backoff' = sleep_sec /\ fails' = 0 /\ cycle' = cycle ]_vars

\* C6 witness: the webhook post of the 60th cycle raised, retention ran and
\* the cycle is at its sleep
C6_Witness ==
    /\ discordErr /\ pc = "sleep"
    /\ cycle = RetentionEvery /\ retentionRuns = 1
    /\ backoff = sleep_sec /\ fails = 0


\* C11: the cycle counter advances by exactly one per successful cycle, at
\* the end of its persistence and notification and before its sleep, and a
\* failed cycle leaves it unchanged; retention_cleanup is invoked in exactly
\* those successful cycles after which the counter is a positive multiple of
\* 60, at that same point, and in no other cycle.
C11_RetentionEvery60th ==
    /\ [][ /\ cycle' # cycle => (pc = "bookkeeping" /\ cycle' = cycle + 1)
           /\ (pc = "bookkeeping" /\ pc' # pc) => (cycle' = cycle + 1 /\ pc' = "sleep")
           /\ (pc' = "bookkeeping" /\ pc # pc') => pc = "discord"
           /\ (pc' = "except" \/ pc = "except") => cycle' = cycle
           /\ retentionRuns' # retentionRuns <=>
                 (pc = "bookkeeping" /\ pc' # pc /\ cycle' > 0
                    /\ cycle' % RetentionEvery = 0)
           /\ retentionRuns' \in {retentionRuns, retentionRuns + 1} ]_vars
    /\ [](retentionRuns = cycle \div RetentionEvery)

\* C11 witness: a cycle failed and left the counter at 58, two cycles
\* succeeded, and the 60th successful cycle has invoked retention before its
\* sleep
C11_Witness ==
    /\ pc = "sleep" /\ cycle = RetentionEvery /\ retentionRuns = 1
    /\ started = 3 /\ lastSleep.kind = "backoff"

\* C12: a loop instance that is the only writer and started on a snapshot
\* directory of at most max_snapshots artifacts never has, while no deletion
\* has failed, more than max_snapshots + 60 snapshot artifacts on disk.
C12_StorageBound ==
    ~failedDelete =>
        Cardinality(Files(snapDir)) <= DefaultMaxSnapshots + RetentionEvery

\* the lines of the (symbol, interval) log
LogLines(dir) == IF LogFile \in Files(dir) THEN Len(dir[LogFile].lines) ELSE 0

\* C13: a cycle that ends in the failure path has created no snapshot and
\* appended no line: both sinks are as they were when it started; so, as
\* long as no retention pass was made, between cycles the snapshots, the log
\* lines and the successful cycles are equally many.
C13_FailedCycleAtomic ==
    /\ pc = "except" => (snapDir = snapStart /\ streamDir = streamStart)
    /\ (pc = "top" /\ retentionRuns = 0) =>
          /\ Cardinality(Files(snapDir)) = cycle
          /\ LogLines(streamDir) = cycle

(***************************************************************************)
(* Claims about compute_cvd_from_taker (SpecCvd).                          *)
(***************************************************************************)
\* the value a row gives for one side, under whichever alias it uses
Gives(r, aliases) == \E i \in 1..3 : r.m[aliases[i]] # AbsentCell
Given(r, aliases) ==
    r.m[aliases[CHOOSE i \in 1..3 : r.m[aliases[i]] # AbsentCell]]

\* rows that are mappings giving a buy and a sell value
VolumeRows(rows) ==
    /\ rows # <<>>
    /\ \A i \in DOMAIN rows :
         rows[i].isMap /\ Gives(rows[i], BuyAliases) /\ Gives(rows[i], SellAliases)

Coerces(c) == c.t \in {"num", "str"}

\* sum of buy - sell over the rows whose two values coerce to numbers
RECURSIVE SumCoercing(_)
SumCoercing(rows) ==
    IF rows = <<>> THEN 0
    ELSE LET b == Given(Head(rows), BuyAliases)
             s == Given(Head(rows), SellAliases)
         IN (IF Coerces(b) /\ Coerces(s) THEN b.v - s.v ELSE 0)
            + SumCoercing(Tail(rows))

\* the same sum with a null value counted as zero: only a row holding a
\* non-numeric string is left out
NullAsZero(c) == IF c.t = "null" THEN 0 ELSE c.v
RECURSIVE SumNullAsZero(_)
SumNullAsZero(rows) ==
    IF rows = <<>> THEN 0
    ELSE LET b == Given(Head(rows), BuyAliases)
             s == Given(Head(rows), SellAliases)
         IN (IF b.t # "bad" /\ s.t # "bad" THEN NullAsZero(b) - NullAsZero(s) ELSE 0)
            + SumNullAsZero(Tail(rows))

\* C9 as stated: for a non-empty sequence of volume rows, given directly or
\* held by a key of a mapping, the result is the sum of buy - sell over the
\* rows whose two values coerce; other rows are left out.
C9_AsStated ==
    (/\ result # NoResult
     /\ \/ payload.shape = "list"
        \/ payload.shape = "dict" /\ payload.isList
     /\ VolumeRows(payload.rows))
    => result = CvdVal(SumCoercing(payload.rows))

\* C9 amended: for a non-empty sequence of volume rows, given directly or
\* held by the key "data" of a mapping, the result is the sum of buy - sell
\* over the rows, a null value counting as zero; a row holding a value that
\* is neither null nor coercible is left out and aborts nothing.
C9_CvdSum ==
    (/\ result # NoResult
     /\ \/ payload.shape = "list"
        \/ payload.shape = "dict" /\ payload.isList /\ payload.key = "data"
     /\ VolumeRows(payload.rows))
    => result = CvdVal(SumNullAsZero(payload.rows))

\* C9 witness: {"data": [row with an unparseable buy, {"taker_buy": 2, "sell": "3"}]}
\* was computed, the first row left out, the second counted
C9_Witness ==
    /\ payload.shape = "dict" /\ payload.key = "data" /\ payload.isList
    /\ Len(payload.rows) = 2
    /\ VolumeRows(payload.rows)
    /\ payload.rows[1].m["buy_volume"] = BadCell
    /\ payload.rows[2].m["taker_buy"] = NumCell(2)
    /\ payload.rows[2].m["sell"] = StrCell(3)
    /\ result = CvdVal(0 - 1)

\* an empty, absent or unrecognized-shape payload
Unrecognized(p) ==
    \/ PayloadFalsy(p)
    \/ p.shape = "scalar"
    \/ p.shape = "dict" /\ ~p.isList
    \/ /\ p.shape = "list" \/ (p.shape = "dict" /\ p.isList)
       /\ p.rows # <<>>
       /\ \A i \in DOMAIN p.rows : ~p.rows[i].isMap

\* C10: for an empty, absent or unrecognized-shape payload the calculator
\* returns None and never raises.
C10_NeverRaises ==
    (result # NoResult /\ Unrecognized(payload)) => result = CvdNone

(***************************************************************************)
(* Claims about retention_cleanup (SpecRetention).                         *)
(***************************************************************************)
DistinctMtimes(dir) ==
    \A f, g \in Files(dir) : f # g => dir[f].mtime # dir[g].mtime

\* C7: with limit N and N + k snapshots (k > 0) of distinct modification
\* times and no deletion failure, one pass removes exactly the k oldest and
\* leaves exactly the N newest; with at most N snapshots it removes none.
C7_SnapshotRetention ==
    (passes >= 1 /\ ~failedDelete /\ DistinctMtimes(snap0)) =>
        LET n == Cardinality(Files(snap0))
            kept == Files(snap1)
            removed == Files(snap0) \ kept
        IN IF n > max_snapshots
           THEN /\ kept \subseteq Files(snap0)
                /\ Cardinality(kept) = max_snapshots
                /\ Cardinality(removed) = n - max_snapshots
                /\ \A r \in removed, k \in kept : snap0[r].mtime < snap0[k].mtime
                /\ snap1 = Restrict(snap0, kept)
           ELSE snap1 = snap0

\* C7 witness: two snapshots of distinct times, limit 1, one pass made:
\* the older one is gone and the newer one is left
C7_Witness ==
    /\ passes = 1 /\ ~failedDelete
    /\ max_snapshots = 1
    /\ Files(snap0) = {1, 2} /\ DistinctMtimes(snap0)
    /\ Files(snapDir) = {2}

\* the newest log file is itself within the budget
NewestWithin(dir, budget) ==
    \A f \in Files(dir) :
        (\A g \in Files(dir) : dir[g].mtime <= dir[f].mtime) => dir[f].size <= budget

\* C8: with byte budget B, the newest log file itself at most B bytes and no
\* deletion failure, after one pass the remaining log files total at most B,
\* the removed files are a prefix of the ascending modification-time order
\* (a newest file is kept), and a second pass removes nothing from either
\* directory.
C8_StreamRetention ==
    (passes >= 1 /\ ~failedDelete /\ NewestWithin(stream0, max_streams_bytes)) =>
        LET kept == Files(stream1)
            removed == Files(stream0) \ kept
        IN /\ kept \subseteq Files(stream0)
           /\ stream1 = Restrict(stream0, kept)
           /\ TotalSize(stream1, kept) <= max_streams_bytes
           /\ \A r \in removed, k \in kept : stream0[r].mtime <= stream0[k].mtime
           /\ Files(stream0) # {} =>
                \E k \in kept : \A g \in Files(stream0) : stream0[g].mtime <= stream0[k].mtime
           /\ passes >= 2 => (snapDir = snap1 /\ streamDir = stream1)

\* C8 witness: two log files over the budget, the first pass removed the
\* older one, and a second pass has been made
C8_Witness ==
    /\ passes = 2 /\ ~failedDelete
    /\ Cardinality(Files(stream0)) = 2
    /\ NewestWithin(stream0, max_streams_bytes)
    /\ TotalSize(stream0, Files(stream0)) > max_streams_bytes
    /\ Files(stream1) = {2}
    /\ Cardinality(Files(snap0)) > max_snapshots
    /\ streamDir = stream1

====
